---------------------------- MODULE Spec2Model ----------------------------
(***************************************************************************)
(* The grid planner of week 3's path-planning notebook: class GraphSearch  *)
(* (occupancy grid, Dijkstra search over 8-connected cells, path           *)
(* reconstruction).                                                        *)
(*                                                                         *)
(* Numbers.  Obstacle, start and goal coordinates, the resolution and the  *)
(* robot radius are integers here (the notebook passes ints and floats     *)
(* with a zero fraction).  Python's round() is modelled as what it is,     *)
(* round-half-to-even of a quotient.  A path cost is a sum of 1's and      *)
(* sqrt(2)'s; it is kept exactly as the pair <<a, b>> standing for         *)
(* a + b*sqrt(2), and compared exactly.  The rounding error of the float   *)
(* additions of the notebook is not modelled.                              *)
(*                                                                         *)
(* Dictionaries.  openset is a sequence of entries [id, node] in insertion *)
(* order, the order in which the CPython 3.6 kernel of the notebook        *)
(* iterates a dict; closedset is only looked up by key and is a function.  *)
(*                                                                         *)
(* The notebook's other code follows the planner: class Robot (set_pose,   *)
(* move), the resampling wheel (resampling, stochasticUniversalSampling)   *)
(* and the RRT script (path retrieval and smoothing).  Their numbers are   *)
(* floats whose rounding and nan decide what the code does, so they are    *)
(* modelled in a small binary float format with explicit rounding.         *)
(***************************************************************************)
EXTENDS Integers, Sequences, FiniteSets, TLC

VARIABLES pc,         \* "new", "ready", "search", "done", "ctor_raised", "raised"
          exc,        \* the exception that ended the call, or "none"
          reso, rr, minx, miny, maxx, maxy, xwidth, ywidth, obmap, motion,
          nstart, ngoal, openset, closedset, expansion,
          rx, ry,     \* the path planning() returned
          obstacles,  \* the caller's obstacle points (ox, oy), kept only by the
                      \* specification that examines the obstacle map
          query,      \* the caller's <<sx, sy, gx, gy>>, kept only by the
                      \* specifications that examine the conversions and
                      \* the calls
          other,      \* the local variables of a second planning() call on
                      \* the same object, in the specification of two calls
          robot,      \* a Robot object and the outcome of the last call on it
          wheel,      \* the local variables of a resampling() or
                      \* stochasticUniversalSampling() call
          rrt         \* the path of the RRT script and its smoothing loop

gridvars == <<reso, rr, minx, miny, maxx, maxy, xwidth, ywidth, obmap, motion>>
planvars == <<nstart, ngoal, openset, closedset, expansion, rx, ry>>
vars == <<pc, exc, gridvars, planvars, obstacles, query, other, robot, wheel, rrt>>

---------------------------------------------------------------------------
\* Bounds of the inputs.

\* The worlds are strips: x coordinates (of obstacles, start and goal) range
\* over 0..CoordMax, y coordinates over YCoords.
CoordMax == 3
YCoords == 0..2
\* an obstacle list holds at most MaxObstacles distinct points
MaxObstacles == 3
\* the grid resolutions tried (0 makes the constructor divide by zero, a
\* negative one gives negative widths and an empty obstacle map, 3 leaves
\* positions that are nearer to one grid position than to the other)
Resolutions == {-1, 0, 1, 2, 3}
\* the robot radii tried
Radii == {0, 1}

Coords == 0..CoordMax
Points == Coords \X YCoords
ObstacleSets == {S \in SUBSET Points : Cardinality(S) <= MaxObstacles}

---------------------------------------------------------------------------
\* Arithmetic.

\* Python 3 round(n/d) for d /= 0: to the nearest integer, a tie to the even
\* one (n/d = (-n)/(-d) brings a negative divisor to a positive one)
PyRound(n, d) ==
    LET nn == IF d < 0 THEN 0 - n ELSE n
        dd == IF d < 0 THEN 0 - d ELSE d
        q == nn \div dd
        r == nn - q * dd
    IN  IF 2 * r < dd THEN q
        ELSE IF 2 * r > dd THEN q + 1
        ELSE IF q % 2 = 0 THEN q ELSE q + 1

SetMin(S) == CHOOSE m \in S : \A e \in S : m <= e
SetMax(S) == CHOOSE m \in S : \A e \in S : m >= e

\* a + b*sqrt(2) as <<a, b>>
CostZero == <<0, 0>>
\* every move charged as an axis move
CostAdd_AxisOnly(c, d) == <<c[1] + 1, c[2]>>

CostAdd(c, d) == <<c[1] + d[1], c[2] + d[2]>>
\* c < d as real numbers: with p = c[1]-d[1], q = d[2]-c[2], is p < q*sqrt(2)
CostLess(c, d) ==
    LET p == c[1] - d[1]
        q == d[2] - c[2]
    IN  IF p <= 0 /\ q >= 0 THEN ~(p = 0 /\ q = 0)
        ELSE IF p >= 0 /\ q <= 0 THEN FALSE
        ELSE IF p > 0 THEN p * p < 2 * q * q
        ELSE p * p > 2 * q * q

---------------------------------------------------------------------------
\* GraphSearch, back-end functions.

Node(x, y, cost, pind) == [x |-> x, y |-> y, cost |-> cost, pind |-> pind]

calc_position(index, minp) == index * reso + minp

\* calc_xyindex with floor division in place of round()
calc_xyindex_Floor(position, minp) ==
    IF reso > 0 THEN (position - minp) \div reso
    ELSE (minp - position) \div (0 - reso)

calc_xyindex(position, minp) == PyRound(position - minp, reso)

calc_index(node) == (node.y - miny) * xwidth + (node.x - minx)

\* the motion model with a step of two cells for the first primitive
get_motion_model_LongStep ==
    << <<2, 0, <<1, 0>> >>,
       <<0, 1, <<1, 0>> >>,
       <<-1, 0, <<1, 0>> >>,
       <<0, -1, <<1, 0>> >>,
       <<-1, -1, <<0, 1>> >>,
       <<-1, 1, <<0, 1>> >>,
       <<1, -1, <<0, 1>> >>,
       <<1, 1, <<0, 1>> >> >>

get_motion_model ==
    << <<1, 0, <<1, 0>> >>,
       <<0, 1, <<1, 0>> >>,
       <<-1, 0, <<1, 0>> >>,
       <<0, -1, <<1, 0>> >>,
       <<-1, -1, <<0, 1>> >>,
       <<-1, 1, <<0, 1>> >>,
       <<1, -1, <<0, 1>> >>,
       <<1, 1, <<0, 1>> >> >>

\* obmap[x][y] of a list of xwidth lists of ywidth booleans: a negative index
\* counts from the end, an index outside -len..len-1 raises IndexError
ListIndex(i, len) == IF i >= 0 THEN i ELSE i + len
ObmapLookup(x, y) ==
    IF x >= xwidth \/ x < -xwidth \/ y >= ywidth \/ y < -ywidth
    THEN "IndexError"
    ELSE IF obmap[<<ListIndex(x, xwidth), ListIndex(y, ywidth)>>]
         THEN "occupied" ELSE "free"

\* verify_node without the collision check: the bounds test alone
verify_node_BoundsOnly(node) ==
    LET px == calc_position(node.x, minx)
        py == calc_position(node.y, miny)
    IN  IF px < minx THEN "False"
        ELSE IF py < miny THEN "False"
        ELSE IF px >= maxx THEN "False"
        ELSE IF py >= maxy THEN "False"
        ELSE "True"

\* verify_node: "True", "False", or "IndexError" when the lookup raises
verify_node(node) ==
    LET px == calc_position(node.x, minx)
        py == calc_position(node.y, miny)
    IN  IF px < minx THEN "False"
        ELSE IF py < miny THEN "False"
        ELSE IF px >= maxx THEN "False"
        ELSE IF py >= maxy THEN "False"
        ELSE LET o == ObmapLookup(node.x, node.y)
             IN  IF o = "IndexError" THEN "IndexError"
                 ELSE IF o = "occupied" THEN "False"
                 ELSE "True"

\* the obstacle map with the test d < rr in place of d <= rr
ObstacleMapOf_Strict(obst, x0, y0, w, h, s, radius) ==
    [c \in (0..(w - 1)) \X (0..(h - 1)) |->
        \E o \in obst :
            LET dx == o[1] - (c[1] * s + x0)
                dy == o[2] - (c[2] * s + y0)
            IN  radius > 0 /\ dx * dx + dy * dy < radius * radius]

\* the obstacle map calc_obstacle_map builds for the bounding box (x0, y0),
\* the widths (w, h) and the resolution s
ObstacleMapOf(obst, x0, y0, w, h, s, radius) ==
    [c \in (0..(w - 1)) \X (0..(h - 1)) |->
        \E o \in obst :
            LET dx == o[1] - (c[1] * s + x0)
                dy == o[2] - (c[2] * s + y0)
            IN  radius >= 0 /\ dx * dx + dy * dy <= radius * radius]

---------------------------------------------------------------------------
\* The dictionaries of planning().

NoDict == [k \in {} |-> 0]

OpenIds(open) == {open[i].id : i \in 1..Len(open)}
OpenGet(open, id) == open[CHOOSE i \in 1..Len(open) : open[i].id = id].node
\* openset[id] = node: a new key goes last, a known key keeps its place
OpenPut(open, id, node) ==
    IF id \in OpenIds(open)
    THEN [i \in 1..Len(open) |->
             IF open[i].id = id THEN [id |-> id, node |-> node] ELSE open[i]]
    ELSE Append(open, [id |-> id, node |-> node])
\* the del statement forgotten
OpenDel_Keep(open, id) == open

OpenDel(open, id) == SelectSeq(open, LAMBDA e : e.id /= id)

\* the assignment closedset[c_id] = current forgotten
DictPut_Forget(d, k, v) == d

DictPut(d, k, v) == [j \in DOMAIN d \cup {k} |-> IF j = k THEN v ELSE d[j]]

\* min(openset) without the key function: the least cell index
MinCostId_NoKey(open) == SetMin(OpenIds(open))

\* min(openset, key=cost) that keeps the last key of least cost
MinCostId_LastWins(open) ==
    LET i == CHOOSE j \in 1..Len(open) :
                 /\ \A k \in 1..(j - 1) : ~CostLess(open[k].node.cost, open[j].node.cost)
                 /\ \A k \in (j + 1)..Len(open) :
                        CostLess(open[j].node.cost, open[k].node.cost)
    IN  open[i].id

\* min(openset, key=cost): the first key, in iteration order, of least cost
MinCostId(open) ==
    LET i == CHOOSE j \in 1..Len(open) :
                 /\ \A k \in 1..(j - 1) : CostLess(open[j].node.cost, open[k].node.cost)
                 /\ \A k \in (j + 1)..Len(open) :
                        ~CostLess(open[k].node.cost, open[j].node.cost)
    IN  open[i].id

---------------------------------------------------------------------------
\* The body of the for loop over the motion model: the neighbour of current
\* along motion[i], folded over i..8.  The result is the open set and "none",
\* or the open set at the moment verify_node raised and "IndexError".
\* the for loop without the test "if n_id in closedset: continue"
RECURSIVE ExpandFrom_NoClosedTest(_, _, _, _, _)
ExpandFrom_NoClosedTest(i, open, closed, current, c_id) ==
    IF i > Len(motion) THEN [open |-> open, err |-> "none"]
    ELSE
      LET node == Node(current.x + motion[i][1], current.y + motion[i][2],
                       CostAdd(current.cost, motion[i][3]), c_id)
          n_id == calc_index(node)
          v == verify_node(node)
      IN  IF v = "IndexError" THEN [open |-> open, err |-> "IndexError"]
          ELSE IF v = "False"
          THEN ExpandFrom_NoClosedTest(i + 1, open, closed, current, c_id)
          ELSE IF n_id \notin OpenIds(open)
          THEN ExpandFrom_NoClosedTest(i + 1, OpenPut(open, n_id, node), closed,
                                       current, c_id)
          ELSE IF CostLess(node.cost, OpenGet(open, n_id).cost)
          THEN ExpandFrom_NoClosedTest(i + 1, OpenPut(open, n_id, node), closed,
                                       current, c_id)
          ELSE ExpandFrom_NoClosedTest(i + 1, open, closed, current, c_id)

\* the for loop that stores the candidate of a cell of the frontier whatever
\* its cost
RECURSIVE ExpandFrom_AlwaysReplace(_, _, _, _, _)
ExpandFrom_AlwaysReplace(i, open, closed, current, c_id) ==
    IF i > Len(motion) THEN [open |-> open, err |-> "none"]
    ELSE
      LET node == Node(current.x + motion[i][1], current.y + motion[i][2],
                       CostAdd(current.cost, motion[i][3]), c_id)
          n_id == calc_index(node)
      IN  IF n_id \in DOMAIN closed
          THEN ExpandFrom_AlwaysReplace(i + 1, open, closed, current, c_id)
          ELSE LET v == verify_node(node)
               IN  IF v = "IndexError" THEN [open |-> open, err |-> "IndexError"]
                   ELSE IF v = "False"
                   THEN ExpandFrom_AlwaysReplace(i + 1, open, closed, current, c_id)
                   ELSE ExpandFrom_AlwaysReplace(i + 1, OpenPut(open, n_id, node),
                                                 closed, current, c_id)

RECURSIVE ExpandFrom(_, _, _, _, _)
ExpandFrom(i, open, closed, current, c_id) ==
    IF i > Len(motion) THEN [open |-> open, err |-> "none"]
    ELSE
      LET node == Node(current.x + motion[i][1], current.y + motion[i][2],
                       CostAdd(current.cost, motion[i][3]), c_id)
          n_id == calc_index(node)
      IN  IF n_id \in DOMAIN closed
          THEN ExpandFrom(i + 1, open, closed, current, c_id)
          ELSE LET v == verify_node(node)
               IN  IF v = "IndexError" THEN [open |-> open, err |-> "IndexError"]
                   ELSE IF v = "False"
                   THEN ExpandFrom(i + 1, open, closed, current, c_id)
                   ELSE IF n_id \notin OpenIds(open)
                   THEN ExpandFrom(i + 1, OpenPut(open, n_id, node), closed,
                                   current, c_id)
                   ELSE IF CostLess(node.cost, OpenGet(open, n_id).cost)
                   THEN ExpandFrom(i + 1, OpenPut(open, n_id, node), closed,
                                   current, c_id)
                   ELSE ExpandFrom(i + 1, open, closed, current, c_id)

\* calc_final_path: the goal's position, then the positions of the nodes the
\* parent ids lead through, until the parent id is -1
RECURSIVE PathFrom(_, _)
PathFrom(pind, closed) ==
    IF pind = -1 THEN [rx |-> <<>>, ry |-> <<>>, err |-> "none"]
    ELSE IF pind \notin DOMAIN closed
    THEN [rx |-> <<>>, ry |-> <<>>, err |-> "KeyError"]
    ELSE LET n == closed[pind]
             rest == PathFrom(n.pind, closed)
         IN  [rx |-> <<calc_position(n.x, minx)>> \o rest.rx,
              ry |-> <<calc_position(n.y, miny)>> \o rest.ry,
              err |-> rest.err]

calc_final_path(goal, closed) ==
    LET rest == PathFrom(goal.pind, closed)
    IN  [rx |-> <<calc_position(goal.x, minx)>> \o rest.rx,
         ry |-> <<calc_position(goal.y, miny)>> \o rest.ry,
         err |-> rest.err]

---------------------------------------------------------------------------
\* The state machine.

NoNode == Node(0, 0, CostZero, -1)

\* the local variables of a planning() call that has not begun
IdleCall ==
    [pc |-> "idle", exc |-> "none", query |-> <<>>,
     nstart |-> NoNode, ngoal |-> NoNode,
     openset |-> <<>>, closedset |-> NoDict, expansion |-> <<>>,
     rx |-> <<>>, ry |-> <<>>]

\* no Robot object yet
NoRobot ==
    [op |-> "none", args |-> <<>>, exc |-> "none", x |-> 0, y |-> 0, orientation |-> 0]
\* no resampling call yet
NoWheel ==
    [pc |-> "idle", fn |-> "none", particles |-> <<>>, w |-> <<>>, N |-> 0,
     beta |-> 0, index |-> 0, w_max |-> 0, i |-> 0, p_temp |-> <<>>, exc |-> "none"]
\* the RRT script before its path retrieval
NoScript == [pc |-> "idle", nodes |-> <<>>, path |-> <<>>, k |-> 0]

Init ==
    /\ pc = "new"
    /\ exc = "none"
    /\ reso = 0 /\ rr = 0
    /\ minx = 0 /\ miny = 0 /\ maxx = 0 /\ maxy = 0
    /\ xwidth = 0 /\ ywidth = 0
    /\ obmap = NoDict
    /\ motion = <<>>
    /\ nstart = NoNode /\ ngoal = NoNode
    /\ openset = <<>> /\ closedset = NoDict
    /\ expansion = <<>>
    /\ rx = <<>> /\ ry = <<>>
    /\ obstacles = {}
    /\ query = <<>>
    /\ other = IdleCall
    /\ robot = NoRobot
    /\ wheel = NoWheel
    /\ rrt = NoScript

\* GraphSearch(ox, oy, reso, rr) with an empty obstacle list: min() raises
ConstructEmpty ==
    /\ pc = "new"
    /\ \E s \in Resolutions, radius \in Radii :
          /\ reso' = s
          /\ rr' = radius
    /\ pc' = "ctor_raised"
    /\ exc' = "ValueError"
    /\ UNCHANGED <<minx, miny, maxx, maxy, xwidth, ywidth, obmap, motion, planvars,
                   obstacles, query, other, robot, wheel, rrt>>

\* GraphSearch(ox, oy, 0, rr): the bounding box is set, the width divides by 0
ConstructZeroReso ==
    /\ pc = "new"
    /\ 0 \in Resolutions
    /\ \E obst \in ObstacleSets \ {{}}, radius \in Radii :
          /\ reso' = 0
          /\ rr' = radius
          /\ minx' = PyRound(SetMin({o[1] : o \in obst}), 1)
          /\ miny' = PyRound(SetMin({o[2] : o \in obst}), 1)
          /\ maxx' = PyRound(SetMax({o[1] : o \in obst}), 1)
          /\ maxy' = PyRound(SetMax({o[2] : o \in obst}), 1)
    /\ pc' = "ctor_raised"
    /\ exc' = "ZeroDivisionError"
    /\ UNCHANGED <<xwidth, ywidth, obmap, motion, planvars, obstacles, query, other, robot, wheel, rrt>>

\* GraphSearch(ox, oy, reso, rr) with obstacles and a resolution other than 0:
\* calc_obstacle_map, then get_motion_model
GraphSearch(obst, s, radius) ==
    /\ LET x0 == PyRound(SetMin({o[1] : o \in obst}), 1)
           y0 == PyRound(SetMin({o[2] : o \in obst}), 1)
           x1 == PyRound(SetMax({o[1] : o \in obst}), 1)
           y1 == PyRound(SetMax({o[2] : o \in obst}), 1)
           w == PyRound(x1 - x0, s)
           h == PyRound(y1 - y0, s)
       IN  /\ reso' = s
           /\ rr' = radius
           /\ minx' = x0 /\ miny' = y0 /\ maxx' = x1 /\ maxy' = y1
           /\ xwidth' = w /\ ywidth' = h
           /\ obmap' = ObstacleMapOf(obst, x0, y0, w, h, s, radius)
    /\ motion' = get_motion_model
    /\ pc' = "ready"
    /\ UNCHANGED <<exc, planvars>>

Construct ==
    /\ pc = "new"
    /\ \E obst \in ObstacleSets \ {{}}, s \in Resolutions \ {0}, radius \in Radii :
          GraphSearch(obst, s, radius)
    /\ UNCHANGED <<obstacles, query, other, robot, wheel, rrt>>

\* planning(sx, sy, gx, gy) up to the while loop
planning(sx, sy, gx, gy) ==
    /\ LET s == Node(calc_xyindex(sx, minx), calc_xyindex(sy, miny), CostZero, -1)
           g == Node(calc_xyindex(gx, minx), calc_xyindex(gy, miny), CostZero, -1)
       IN  /\ nstart' = s
           /\ ngoal' = g
           /\ openset' = OpenPut(<<>>, calc_index(s), s)
    /\ closedset' = NoDict
    /\ expansion' = <<>>
    /\ pc' = "search"
    /\ UNCHANGED <<exc, gridvars, rx, ry, obstacles, other, robot, wheel, rrt>>

PlanningStart ==
    /\ pc = "ready"
    /\ \E sx \in Coords, sy \in YCoords, gx \in Coords, gy \in YCoords :
          planning(sx, sy, gx, gy)
    /\ UNCHANGED query

\* an iteration of the while loop with an empty openset: min() raises
PlanningLoopEmpty ==
    /\ pc = "search"
    /\ openset = <<>>
    /\ pc' = "raised"
    /\ exc' = "ValueError"
    /\ UNCHANGED <<gridvars, planvars, obstacles, query, other, robot, wheel, rrt>>

Selected == OpenGet(openset, MinCostId(openset))
IsGoal(current) == current.x = ngoal.x /\ current.y = ngoal.y
\* the log written only when the goal is selected
Logged_GoalOnly(current) ==
    IF IsGoal(current)
    THEN Append(expansion, <<calc_position(current.x, minx),
                             calc_position(current.y, miny)>>)
    ELSE expansion

Logged(current) ==
    Append(expansion, <<calc_position(current.x, minx), calc_position(current.y, miny)>>)

\* an iteration that selects the goal: break, calc_final_path, return
PlanningLoopGoal ==
    /\ pc = "search"
    /\ openset /= <<>>
    /\ IsGoal(Selected)
    /\ expansion' = Logged(Selected)
    /\ ngoal' = [ngoal EXCEPT !.pind = Selected.pind, !.cost = Selected.cost]
    /\ LET r == calc_final_path(ngoal', closedset)
       IN  IF r.err = "none"
           THEN /\ rx' = r.rx /\ ry' = r.ry
                /\ pc' = "done"
                /\ exc' = exc
           ELSE /\ rx' = rx /\ ry' = ry
                /\ pc' = "raised"
                /\ exc' = r.err
    /\ UNCHANGED <<gridvars, nstart, openset, closedset, obstacles, query, other, robot, wheel, rrt>>

\* an iteration that selects another cell: close it and expand its neighbours
PlanningLoopExpand ==
    /\ pc = "search"
    /\ openset /= <<>>
    /\ ~IsGoal(Selected)
    /\ expansion' = Logged(Selected)
    /\ LET c_id == MinCostId(openset)
           current == Selected
           closed == DictPut(closedset, c_id, current)
           r == ExpandFrom(1, OpenDel(openset, c_id), closed, current, c_id)
       IN  /\ closedset' = closed
           /\ openset' = r.open
           /\ IF r.err = "none"
              THEN pc' = "search" /\ exc' = exc
              ELSE pc' = "raised" /\ exc' = r.err
    /\ UNCHANGED <<gridvars, nstart, ngoal, rx, ry, obstacles, query, other, robot, wheel, rrt>>

Next ==
    \/ ConstructEmpty
    \/ ConstructZeroReso
    \/ Construct
    \/ PlanningStart
    \/ PlanningLoopEmpty
    \/ PlanningLoopGoal
    \/ PlanningLoopExpand

Spec == Init /\ [][Next]_vars

---------------------------------------------------------------------------
\* What the claims speak of.

Started == pc \in {"search", "done", "raised"}
Returned == pc = "done"

PositionOf(c) == <<c[1] * reso + minx, c[2] * reso + miny>>
CellOf(n) == <<n.x, n.y>>
\* min <= pos < max on both axes
InBounds(c) ==
    /\ minx <= PositionOf(c)[1] /\ PositionOf(c)[1] < maxx
    /\ miny <= PositionOf(c)[2] /\ PositionOf(c)[2] < maxy
\* a cell of the obstacle map that is in bounds and not marked occupied
FreeCell(c) == InBounds(c) /\ c \in DOMAIN obmap /\ ~obmap[c]
QueryValid == FreeCell(CellOf(nstart)) /\ FreeCell(CellOf(ngoal))

Waypoint(i) == <<rx[i], ry[i]>>

\* The cost of a cheapest 8-connected path from cell s to cell g whose every
\* move enters a free cell, an axis move costing 1 and a diagonal move sqrt(2);
\* NoPath when there is none.  It is computed by relaxing every cell until
\* nothing changes (at most as often as there are cells).
NoPath == <<-1, -1>>
Adjacent(c, d) ==
    /\ c /= d
    /\ c[1] - d[1] \in {-1, 0, 1}
    /\ c[2] - d[2] \in {-1, 0, 1}
MoveCost(c, d) == IF c[1] /= d[1] /\ c[2] /= d[2] THEN <<0, 1>> ELSE <<1, 0>>
LeastCost(S) == IF S = {} THEN NoPath
                ELSE CHOOSE m \in S : \A e \in S : ~CostLess(e, m)
Relaxed(dist, cells, s) ==
    [c \in cells |->
        IF c = s THEN CostZero
        ELSE IF ~FreeCell(c) THEN NoPath
        ELSE LeastCost({CostAdd(dist[d], MoveCost(d, c)) :
                            d \in {e \in cells : Adjacent(e, c) /\ dist[e] /= NoPath}})]
RECURSIVE RelaxTimes(_, _, _, _)
RelaxTimes(k, dist, cells, s) ==
    LET next == Relaxed(dist, cells, s)
    IN  IF k = 0 \/ next = dist THEN dist ELSE RelaxTimes(k - 1, next, cells, s)
ShortestCost(s, g) ==
    LET cells == DOMAIN obmap \cup {s, g}
        first == [c \in cells |-> IF c = s THEN CostZero ELSE NoPath]
    IN  RelaxTimes(Cardinality(cells), first, cells, s)[g]

---------------------------------------------------------------------------
---------------------------------------------------------------------------
\* C2. When the frontier becomes empty before the goal cell is selected,
\* planning ends by returning an UNREACHABLE result, not by raising, and
\* returns no path.  (The original claim; the loop's min() raises instead.)
\* It is stated for the queries the planner accepts: start and goal are free
\* cells.
FrontierExhausted ==
    /\ pc \in {"done", "raised"}
    /\ openset = <<>>
    /\ exc \in {"none", "ValueError"}
C2_UnreachableIsReturned ==
    (QueryValid /\ FrontierExhausted) =>
        (pc = "done" /\ exc = "none" /\ rx = <<>> /\ ry = <<>>)

---------------------------------------------------------------------------
\* C3. If the start or the goal maps to a cell that is out of bounds or
\* occupied, planning fails before the search loop: no cell is selected,
\* nothing is logged in the expansion order and no path is produced.  (The
\* original claim; planning() makes no such test.)
C3_InvalidQueryRejected ==
    (Started /\ ~QueryValid) =>
        (expansion = <<>> /\ closedset = NoDict /\ ~Returned)

---------------------------------------------------------------------------
\* C4. The returned path runs from start to goal: its first waypoint is the
\* start cell's position and its last waypoint the goal cell's.  (The original
\* claim; calc_final_path starts at the goal and nothing reverses the lists.)
\* It is stated for the queries the planner accepts: start and goal are free
\* cells.
C4_PathFromStartToGoal ==
    (Returned /\ QueryValid) =>
        /\ Waypoint(1) = PositionOf(CellOf(nstart))
        /\ Waypoint(Len(rx)) = PositionOf(CellOf(ngoal))

---------------------------------------------------------------------------
\* C5. Every waypoint of a returned path, the first and the last included, is
\* the position of a cell that is in bounds and not marked occupied.  (The
\* original claim; it fails for the start, which C3's missing test lets in.)
C5_WaypointsAreFree ==
    Returned =>
        \A i \in 1..Len(rx) :
            \E c \in DOMAIN obmap : FreeCell(c) /\ PositionOf(c) = Waypoint(i)

---------------------------------------------------------------------------
\* C6. In every returned path each two consecutive waypoints differ by exactly
\* one of the 8 motion primitives scaled by the resolution, and no waypoint
\* occurs twice.
Primitives == ({-1, 0, 1} \X {-1, 0, 1}) \ {<<0, 0>>}
C6_PathIsContiguous ==
    Returned =>
        /\ Len(rx) = Len(ry)
        /\ \A i \in 1..(Len(rx) - 1) :
              \E d \in Primitives :
                  /\ rx[i + 1] - rx[i] = d[1] * reso
                  /\ ry[i + 1] - ry[i] = d[2] * reso
        /\ \A i, j \in 1..Len(rx) : i /= j => Waypoint(i) /= Waypoint(j)

\* a path of a valid query with at least three waypoints
C6_Witness ==
    /\ Returned
    /\ QueryValid
    /\ Len(rx) >= 3
    /\ Waypoint(Len(rx)) = PositionOf(CellOf(nstart))

---------------------------------------------------------------------------
\* C8. Every call of planning on a finite grid terminates, for every start
\* and goal, an unreachable goal included.  Stated with the loop's variant:
\* an iteration either ends the call (goal found: return; frontier exhausted:
\* min() raises; the obstacle map's IndexError) or logs one more cell, and the
\* log never holds more entries than the map has cells, plus one for a start
\* outside the map.  (Every state of the loop has an iteration to take: the
\* three loop actions cover pc = "search".)
PlanningLoop == PlanningLoopEmpty \/ PlanningLoopGoal \/ PlanningLoopExpand
C8_PlanningTerminates ==
    /\ [](pc = "search" => Len(expansion) <= Cardinality(DOMAIN obmap) + 1)
    /\ [][pc = "search" =>
            \/ pc' \in {"done", "raised"}
            \/ pc' = "search" /\ Len(expansion') = Len(expansion) + 1]_vars

\* the search of a valid query that ended with the frontier exhausted
C8_Witness ==
    /\ QueryValid
    /\ pc = "raised"
    /\ exc = "ValueError"
    /\ CellOf(nstart) /= CellOf(ngoal)

---------------------------------------------------------------------------
\* C9. In every state reached during planning no linear cell index is a key
\* of both the frontier (openset) and the explored set (closedset).
C9_OpenClosedDisjoint == OpenIds(openset) \cap DOMAIN closedset = {}

\* the search under way, with cells in both sets
C9_Witness ==
    /\ pc = "search"
    /\ Len(openset) >= 2
    /\ Cardinality(DOMAIN closedset) >= 2

---------------------------------------------------------------------------
\* C10. Once a cell is in the explored set (closedset), its recorded cost and
\* parent never change for the rest of the planning call, and the cell is
\* never inserted into the frontier again.
C10_ClosedIsFinal ==
    [][pc = "search" =>
          \A k \in DOMAIN closedset :
              /\ k \in DOMAIN closedset'
              /\ closedset'[k] = closedset[k]
              /\ k \notin OpenIds(openset')]_vars

\* a closed cell next to the cell closed after it: its re-insertion was skipped
C10_Witness ==
    /\ pc = "search"
    /\ \E k, m \in DOMAIN closedset :
          /\ k /= m
          /\ closedset[m].pind = k
          /\ Adjacent(CellOf(closedset[k]), CellOf(closedset[m]))

---------------------------------------------------------------------------
\* C11. A resolution <= 0 (and an empty obstacle set) is detected by the
\* constructor: it fails, no grid is built and no search is entered.  (The
\* original claim; a negative resolution passes the constructor, which builds
\* an empty obstacle map of negative widths, and planning can be called.  An
\* empty obstacle set and a zero resolution end the constructor with the
\* ValueError of min() and a ZeroDivisionError, not with a failure of the
\* program's own.)
C11_InvalidConfigurationRejected ==
    (pc /= "new" /\ reso <= 0) =>
        /\ pc = "ctor_raised"
        /\ xwidth = 0 /\ ywidth = 0 /\ obmap = NoDict

---------------------------------------------------------------------------
\* The 10x10 worlds of the planner's test scenarios, at resolution 1 and robot
\* radius 0.  Two obstacle points outside the map span the bounding box
\* [0, 10) x [0, 10); the open world has no other obstacle, the wall world has
\* the column x = 5 occupied except for the cell (5, 5).  The start is (0, 0),
\* the goal any grid position.
ScenarioRange == 0..9
OpenWorld == {<<0, 1 + SetMax(ScenarioRange)>>, <<1 + SetMax(ScenarioRange), 0>>}
WallWorld == OpenWorld \cup {<<5, y>> : y \in ScenarioRange \ {5}}

ScenarioConstruct ==
    /\ pc = "new"
    /\ \E obst \in {OpenWorld, WallWorld} : GraphSearch(obst, 1, 0)
    /\ UNCHANGED <<obstacles, query, other, robot, wheel, rrt>>

ScenarioPlanningStart ==
    /\ pc = "ready"
    /\ \E gx \in ScenarioRange, gy \in ScenarioRange : planning(0, 0, gx, gy)
    /\ UNCHANGED query

ScenarioNext ==
    \/ ScenarioConstruct
    \/ ScenarioPlanningStart
    \/ PlanningLoopEmpty
    \/ PlanningLoopGoal
    \/ PlanningLoopExpand

ScenarioSpec == Init /\ [][ScenarioNext]_vars

InWallWorld == pc /= "new" /\ <<5, 0>> \in DOMAIN obmap /\ obmap[<<5, 0>>]
InOpenWorld == pc /= "new" /\ ~InWallWorld

---------------------------------------------------------------------------
\* C12. On the 10x10 grid at resolution 1 with no occupied cell between them,
\* planning from (0, 0) to (3, 4) returns a path of exactly 5 waypoints, both
\* endpoints among them, whose cost is 3*sqrt(2) + 1.
C12_ThreeDiagonalsOneStraight ==
    (Returned /\ CellOf(nstart) = <<0, 0>> /\ CellOf(ngoal) = <<3, 4>>) =>
        /\ Len(rx) = 5 /\ Len(ry) = 5
        /\ ngoal.cost = <<1, 3>>
        /\ {Waypoint(1), Waypoint(5)} = {<<0, 0>>, <<3, 4>>}

\* that query answered in the open world
C12_Witness ==
    /\ Returned
    /\ InOpenWorld
    /\ Cardinality(DOMAIN obmap) = 100
    /\ \A c \in DOMAIN obmap : ~obmap[c]
    /\ CellOf(nstart) = <<0, 0>>
    /\ CellOf(ngoal) = <<3, 4>>
    /\ Len(rx) = 5

---------------------------------------------------------------------------
\* C13. On the 10x10 grid whose column x = 5 is occupied except for the cell
\* (5, 5), the path returned by planning from (0, 0) to (9, 9) has the gap cell
\* (5, 5) as a waypoint.  It is stated for every goal beyond the wall, (9, 9)
\* among them.
C13_PathThroughGap ==
    (Returned /\ InWallWorld /\ CellOf(nstart) = <<0, 0>> /\ ngoal.x > 5) =>
        \E i \in 1..Len(rx) : Waypoint(i) = <<5, 5>>

\* the query (0, 0) -> (9, 9) answered in the wall world
C13_Witness ==
    /\ Returned
    /\ InWallWorld
    /\ \A y \in ScenarioRange : obmap[<<5, y>>] <=> y /= 5
    /\ CellOf(nstart) = <<0, 0>>
    /\ CellOf(ngoal) = <<9, 9>>
    /\ \E i \in 1..Len(rx) : Waypoint(i) = <<5, 5>>

---------------------------------------------------------------------------
\* The constructor observed together with its arguments: the obstacle points
\* are remembered next to the grid built from them.
MapConstruct ==
    /\ pc = "new"
    /\ \E obst \in ObstacleSets \ {{}}, s \in Resolutions \ {0}, radius \in Radii :
          /\ GraphSearch(obst, s, radius)
          /\ obstacles' = obst
    /\ UNCHANGED <<query, other, robot, wheel, rrt>>

MapNext ==
    \/ MapConstruct
    \/ ConstructEmpty
    \/ ConstructZeroReso

MapSpec == Init /\ [][MapNext]_vars

\* the square of the Euclidean distance between two points
DistanceSquared(p, q) == (p[1] - q[1]) * (p[1] - q[1]) + (p[2] - q[2]) * (p[2] - q[2])

\* C14. After calc_obstacle_map the obstacle map covers exactly the cells of
\* [0, xwidth) x [0, ywidth), and a cell is marked occupied if and only if the
\* Euclidean distance from its position (index*reso + min) to at least one
\* obstacle point is <= the robot radius.
C14_OccupiedIffWithinRadius ==
    pc = "ready" =>
        /\ DOMAIN obmap = {c \in (0..(xwidth - 1)) \X (0..(ywidth - 1)) : TRUE}
        /\ \A c \in DOMAIN obmap :
              obmap[c] <=> \E o \in obstacles :
                              DistanceSquared(PositionOf(c), o) <= rr * rr

\* a grid with an occupied cell at distance exactly rr of an obstacle point, a
\* free cell, and an occupied cell that holds no obstacle point
C14_Witness ==
    /\ pc = "ready"
    /\ rr = 1
    /\ \E c, d \in DOMAIN obmap :
          /\ obmap[c] /\ PositionOf(c) \notin obstacles
          /\ \E o \in obstacles : DistanceSquared(PositionOf(c), o) = 1
          /\ ~obmap[d]

---------------------------------------------------------------------------
\* planning observed together with its arguments: the positions asked for are
\* remembered next to the cells calc_xyindex made of them.
QueryPlanningStart ==
    /\ pc = "ready"
    /\ \E sx \in Coords, sy \in YCoords, gx \in Coords, gy \in YCoords :
          /\ planning(sx, sy, gx, gy)
          /\ query' = <<sx, sy, gx, gy>>

QueryNext ==
    \/ Construct
    \/ ConstructEmpty
    \/ ConstructZeroReso
    \/ QueryPlanningStart

QuerySpec == Init /\ [][QueryNext]_vars

Abs(n) == IF n < 0 THEN 0 - n ELSE n
\* the cell indices and the positions the conversions are tried on
Indices == (0 - CoordMax)..CoordMax
\* the grid position calc_xyindex and calc_position make of a position
Snapped(p, minp) == calc_position(calc_xyindex(p, minp), minp)

\* C15. calc_xyindex and calc_position are inverses on grid cells: for every
\* cell index i and bound minp, calc_xyindex(calc_position(i, minp), minp) = i;
\* and for every position p, calc_position(calc_xyindex(p, minp), minp) is a
\* grid position nearest to p, at most half a resolution away.  The cells of
\* the start and the goal are the ones calc_xyindex makes of the query.
C15_IndexPositionInverse ==
    pc = "search" =>
        /\ \A i \in Indices, minp \in Coords :
              calc_xyindex(calc_position(i, minp), minp) = i
        /\ \A p \in Coords, minp \in Coords :
              /\ 2 * Abs(Snapped(p, minp) - p) <= Abs(reso)
              /\ \A j \in Indices :
                    Abs(Snapped(p, minp) - p) <= Abs(calc_position(j, minp) - p)
        /\ PositionOf(CellOf(nstart)) = <<Snapped(query[1], minx), Snapped(query[2], miny)>>
        /\ PositionOf(CellOf(ngoal)) = <<Snapped(query[3], minx), Snapped(query[4], miny)>>

\* a start below the bounding box and between two grid positions, at
\* resolution 2: it is snapped to a grid position half a resolution away
C15_Witness ==
    /\ pc = "search"
    /\ reso = 2
    /\ query[1] < minx
    /\ Abs(PositionOf(CellOf(nstart))[1] - query[1]) = 1
    /\ nstart.x < 0

---------------------------------------------------------------------------
\* Two planning() calls on one GraphSearch object, their loop iterations
\* interleaved in any order.  The first call runs in the variables of the
\* planner above; the second call's local variables are the record other, and
\* its steps are planning()'s statements applied to that record.

\* planning(sx, sy, gx, gy) up to the while loop, on a call's own variables
CallStart(sx, sy, gx, gy) ==
    LET s == Node(calc_xyindex(sx, minx), calc_xyindex(sy, miny), CostZero, -1)
        g == Node(calc_xyindex(gx, minx), calc_xyindex(gy, miny), CostZero, -1)
    IN  [pc |-> "search", exc |-> "none", query |-> <<sx, sy, gx, gy>>,
         nstart |-> s, ngoal |-> g,
         openset |-> OpenPut(<<>>, calc_index(s), s), closedset |-> NoDict,
         expansion |-> <<>>, rx |-> <<>>, ry |-> <<>>]

\* an iteration of the while loop that reads the frontier of the first call
\* in place of the call's own
CallStep_SharedFrontier(c) ==
    IF openset = <<>> THEN [c EXCEPT !.pc = "raised", !.exc = "ValueError"]
    ELSE
      LET c_id == MinCostId(openset)
          current == OpenGet(openset, c_id)
          log == Append(c.expansion, <<calc_position(current.x, minx),
                                       calc_position(current.y, miny)>>)
      IN  IF current.x = c.ngoal.x /\ current.y = c.ngoal.y
          THEN LET goal == [c.ngoal EXCEPT !.pind = current.pind,
                                           !.cost = current.cost]
                   r == calc_final_path(goal, c.closedset)
               IN  IF r.err = "none"
                   THEN [c EXCEPT !.expansion = log, !.ngoal = goal,
                                  !.rx = r.rx, !.ry = r.ry, !.pc = "done"]
                   ELSE [c EXCEPT !.expansion = log, !.ngoal = goal,
                                  !.pc = "raised", !.exc = r.err]
          ELSE LET closed == DictPut(c.closedset, c_id, current)
                   r == ExpandFrom(1, OpenDel(openset, c_id), closed, current, c_id)
               IN  [c EXCEPT !.expansion = log, !.closedset = closed,
                              !.openset = r.open,
                              !.pc = IF r.err = "none" THEN "search" ELSE "raised",
                              !.exc = IF r.err = "none" THEN c.exc ELSE r.err]

\* an iteration of the while loop on a call's own variables
CallStep(c) ==
    IF c.openset = <<>> THEN [c EXCEPT !.pc = "raised", !.exc = "ValueError"]
    ELSE
      LET c_id == MinCostId(c.openset)
          current == OpenGet(c.openset, c_id)
          log == Append(c.expansion, <<calc_position(current.x, minx),
                                       calc_position(current.y, miny)>>)
      IN  IF current.x = c.ngoal.x /\ current.y = c.ngoal.y
          THEN LET goal == [c.ngoal EXCEPT !.pind = current.pind,
                                           !.cost = current.cost]
                   r == calc_final_path(goal, c.closedset)
               IN  IF r.err = "none"
                   THEN [c EXCEPT !.expansion = log, !.ngoal = goal,
                                  !.rx = r.rx, !.ry = r.ry, !.pc = "done"]
                   ELSE [c EXCEPT !.expansion = log, !.ngoal = goal,
                                  !.pc = "raised", !.exc = r.err]
          ELSE LET closed == DictPut(c.closedset, c_id, current)
                   r == ExpandFrom(1, OpenDel(c.openset, c_id), closed, current, c_id)
               IN  [c EXCEPT !.expansion = log, !.closedset = closed,
                              !.openset = r.open,
                              !.pc = IF r.err = "none" THEN "search" ELSE "raised",
                              !.exc = IF r.err = "none" THEN c.exc ELSE r.err]

\* the worlds of the two calls: a map of 3 x 2 cells at resolution 1, empty,
\* with one occupied cell, or cut in two by an occupied column
PairWorlds ==
    {{<<0, 2>>, <<3, 0>>},
     {<<0, 2>>, <<3, 0>>, <<1, 1>>},
     {<<0, 2>>, <<3, 0>>, <<1, 0>>, <<1, 1>>}}
\* their queries: from a corner of the map to any cell of it
PairQueries ==
    {<<s[1], s[2], gx, gy>> : s \in {<<0, 0>>, <<2, 1>>}, gx \in 0..2, gy \in 0..1}

PairConstruct ==
    /\ pc = "new"
    /\ \E obst \in PairWorlds : GraphSearch(obst, 1, 0)
    /\ UNCHANGED <<obstacles, query, other, robot, wheel, rrt>>

FirstStart ==
    /\ pc = "ready"
    /\ \E q \in PairQueries :
          /\ planning(q[1], q[2], q[3], q[4])
          /\ query' = q

SecondStart ==
    /\ pc \in {"ready", "search", "done", "raised"}
    /\ other.pc = "idle"
    /\ \E q \in PairQueries : other' = CallStart(q[1], q[2], q[3], q[4])
    /\ UNCHANGED <<pc, exc, gridvars, planvars, obstacles, query, robot, wheel, rrt>>

SecondStep ==
    /\ other.pc = "search"
    /\ other' = CallStep(other)
    /\ UNCHANGED <<pc, exc, gridvars, planvars, obstacles, query, robot, wheel, rrt>>

PairNext ==
    \/ PairConstruct
    \/ FirstStart
    \/ PlanningLoopEmpty
    \/ PlanningLoopGoal
    \/ PlanningLoopExpand
    \/ SecondStart
    \/ SecondStep

PairSpec == Init /\ [][PairNext]_vars

\* the first call's local variables, as a record
ThisCall ==
    [pc |-> pc, exc |-> exc, query |-> query, nstart |-> nstart, ngoal |-> ngoal,
     openset |-> openset, closedset |-> closedset, expansion |-> expansion,
     rx |-> rx, ry |-> ry]
\* the call of a query run alone to its end
RECURSIVE RunAlone(_)
RunAlone(c) == IF c.pc = "search" THEN RunAlone(CallStep(c)) ELSE c
Ended(c) == c.pc \in {"done", "raised"}


\* C16. planning never modifies the occupancy grid (obmap, minx, miny, maxx,
\* maxy, xwidth, ywidth, reso, rr, motion), and its frontier and explored sets
\* are local to the call: a step of one call leaves the variables of the other
\* alone.  Hence each of two interleaved calls on the same object ends with
\* the result (path, expansion order or exception) it has when run alone.
C16_InterleavedCallsAsAlone ==
    /\ [][pc /= "new" => UNCHANGED gridvars]_vars
    /\ [][other' /= other => UNCHANGED <<pc, exc, planvars>>]_vars
    /\ [][<<pc, exc, planvars>>' /= <<pc, exc, planvars>> => other' = other]_vars
    /\ [](Ended(ThisCall) =>
            ThisCall = RunAlone(CallStart(query[1], query[2], query[3], query[4])))
    /\ [](Ended(other) =>
            other = RunAlone(CallStart(other.query[1], other.query[2],
                                       other.query[3], other.query[4])))

\* the second call has returned a path of three waypoints while the first
\* call, on another query, is in its loop with a cell closed
C16_Witness ==
    /\ pc = "search"
    /\ Len(expansion) >= 1
    /\ other.pc = "done"
    /\ Len(other.rx) >= 3
    /\ other.query /= query
    /\ other.closedset /= closedset

---------------------------------------------------------------------------
\* C17. Path reconstruction follows only parent ids that are keys of the
\* explored set and stops only at the start node: the last reconstructed
\* waypoint is the start cell, whatever the grid origin (minx, miny) and the
\* width, and the no-parent mark -1 is the linear index of no explored cell.
\* (The original claim; calc_index subtracts the origin's position from the
\* cell index, so with minx = 1 the cell (0, 0) has the index -1.)  It is
\* stated for the queries the planner accepts: start and goal are free cells.
C17_PathEndsAtStart ==
    /\ exc /= "KeyError"
    /\ (Started /\ QueryValid) => -1 \notin DOMAIN closedset
    /\ (Returned /\ QueryValid) => Waypoint(Len(rx)) = PositionOf(CellOf(nstart))

---------------------------------------------------------------------------
\* C18. Every cell that passes the bounds test of verify_node (minx <= px <
\* maxx and miny <= py < maxy) has 0 <= ix < xwidth and 0 <= iy < ywidth, so
\* that the obmap lookup is inside the array and raises nothing, for every
\* bounding box and every positive resolution.  (The original claim; the
\* widths are round((max - min)/reso), which is less than the number of grid
\* positions below max when the quotient is rounded down.)
C18_LookupInsideMap ==
    (pc \in {"ready", "search", "done", "raised"} /\ reso > 0) =>
        /\ \A c \in Indices \X Indices :
              InBounds(c) => (0 <= c[1] /\ c[1] < xwidth /\ 0 <= c[2] /\ c[2] < ywidth)
        /\ exc /= "IndexError"

---------------------------------------------------------------------------
\* C19. The linear index identifies cells uniquely: two distinct in-bounds
\* cells never have the same calc_index, so the explored set never holds one
\* cell under the index of another, and no free cell is skipped as already
\* explored because another cell was closed under its index.  (The original
\* claim; the start is closed without any test, and a start at x = xwidth is
\* closed under the index of the cell (0, y + 1).)
IndexOf(c) == calc_index(Node(c[1], c[2], CostZero, -1))
C19_IndexIdentifiesCell ==
    (Started /\ reso > 0) =>
        /\ \A c, d \in Indices \X Indices :
              (InBounds(c) /\ InBounds(d) /\ c /= d) => IndexOf(c) /= IndexOf(d)
        /\ \A k \in DOMAIN closedset :
              \A c \in Indices \X Indices :
                  (FreeCell(c) /\ IndexOf(c) = k) => c = CellOf(closedset[k])

---------------------------------------------------------------------------
\* C20. When several frontier entries share the minimum priority, the entry
\* selected is the one whose cell was inserted into the frontier first.  The
\* frontier lists its cells in the order of their first insertion: a step
\* keeps the order of the cells that stay and puts new cells behind them.
\* The cell a step selects is the one it logs in the expansion order.
PlaceOf(open, id) == CHOOSE i \in 1..Len(open) : open[i].id = id
LeastCostIn(open, i) ==
    \A j \in 1..Len(open) : ~CostLess(open[j].node.cost, open[i].node.cost)
C20_FirstInsertedWins ==
    [][(pc = "search" /\ openset /= <<>>) =>
          /\ \E i \in 1..Len(openset) :
                /\ expansion'[Len(expansion')] = PositionOf(CellOf(openset[i].node))
                /\ LeastCostIn(openset, i)
                /\ \A j \in 1..(i - 1) : ~LeastCostIn(openset, j)
          /\ \A a, b \in OpenIds(openset) \cap OpenIds(openset') :
                PlaceOf(openset, a) < PlaceOf(openset, b)
                    => PlaceOf(openset', a) < PlaceOf(openset', b)
          /\ \A a \in OpenIds(openset), b \in OpenIds(openset') \ OpenIds(openset) :
                a \in OpenIds(openset') => PlaceOf(openset', a) < PlaceOf(openset', b)]_vars

\* a tie was broken at the last selection: a cell of the frontier has the cost
\* of the cell selected last (it was in the frontier then, the cells inserted
\* since cost more), and its index is the lesser of the two
C20_Witness ==
    /\ pc = "search"
    /\ expansion /= <<>>
    /\ \E k \in DOMAIN closedset, i \in 1..Len(openset) :
          /\ PositionOf(CellOf(closedset[k])) = expansion[Len(expansion)]
          /\ openset[i].node.cost = closedset[k].cost
          /\ openset[i].id < k

---------------------------------------------------------------------------
\* The worlds of the detours: a map of 5 x 4 cells at resolution 1 with two
\* occupied cells side by side, around which a cell is first reached along
\* diagonals and later, cheaper, along the axes.  The start is a cell of the
\* left column, the goal any cell.
DetourWorlds ==
    {{<<0, 4>>, <<5, 0>>, <<3, 1>>, <<3, 2>>},
     {<<0, 4>>, <<5, 0>>, <<1, 1>>, <<1, 2>>}}

DetourConstruct ==
    /\ pc = "new"
    /\ \E obst \in DetourWorlds : GraphSearch(obst, 1, 0)
    /\ UNCHANGED <<obstacles, query, other, robot, wheel, rrt>>

DetourPlanningStart ==
    /\ pc = "ready"
    /\ \E sy \in 0..3, gx \in 0..4, gy \in 0..3 : planning(0, sy, gx, gy)
    /\ UNCHANGED query

DetourNext ==
    \/ DetourConstruct
    \/ DetourPlanningStart
    \/ PlanningLoopEmpty
    \/ PlanningLoopGoal
    \/ PlanningLoopExpand

DetourSpec == Init /\ [][DetourNext]_vars

\* C21. A frontier entry is replaced only by a candidate with strictly lower
\* cost: a cell that stays in the frontier over a step keeps its node (cost
\* and parent), or gets a node of strictly lower cost.  So the cost recorded
\* never increases, and a candidate of equal cost changes nothing.
C21_ReplacedOnlyByCheaper ==
    [][pc = "search" =>
          \A id \in OpenIds(openset) \cap OpenIds(openset') :
              \/ OpenGet(openset', id) = OpenGet(openset, id)
              \/ CostLess(OpenGet(openset', id).cost, OpenGet(openset, id).cost)]_vars

\* a cell of the frontier whose entry was replaced: its parent b was closed
\* after another explored neighbour a of the cell (a costs less than b), so the
\* cell was in the frontier, with a parent closed before b, when b was expanded
C21_Witness ==
    /\ pc = "search"
    /\ \E i \in 1..Len(openset), a, b \in DOMAIN closedset :
          /\ openset[i].node.pind = b
          /\ a /= b
          /\ Adjacent(CellOf(closedset[a]), CellOf(openset[i].node))
          /\ CostLess(closedset[a].cost, closedset[b].cost)

---------------------------------------------------------------------------
\* C22. The expansion log is exactly the sequence of the cells selected from
\* the frontier, in selection order: every iteration appends the position of
\* the cell it selects (the cell it closes, or the goal), the first entry is
\* the start cell, during the search the log is as long as the explored set,
\* and when planning ends with the goal found the last entry is the goal cell
\* and the length is the size of the explored set plus one.
C22_LogIsSelectionOrder ==
    /\ []((Started /\ expansion /= <<>>) =>
             expansion[1] = PositionOf(CellOf(nstart)))
    /\ [](pc = "search" => Len(expansion) = Cardinality(DOMAIN closedset))
    /\ [](Returned =>
             /\ expansion[Len(expansion)] = PositionOf(CellOf(ngoal))
             /\ Len(expansion) = Cardinality(DOMAIN closedset) + 1)
    /\ [][(pc = "search" /\ openset /= <<>>) =>
             /\ SubSeq(expansion', 1, Len(expansion)) = expansion
             /\ Len(expansion') = Len(expansion) + 1
             /\ \/ /\ pc' = "done"
                   /\ closedset' = closedset
                \/ \E k \in DOMAIN closedset' \ DOMAIN closedset :
                      /\ DOMAIN closedset' = DOMAIN closedset \cup {k}
                      /\ k \in OpenIds(openset)
                      /\ closedset'[k] = OpenGet(openset, k)
                      /\ expansion'[Len(expansion')] =
                             PositionOf(CellOf(closedset'[k]))]_vars

\* a valid query answered after three cells were closed
C22_Witness ==
    /\ Returned
    /\ QueryValid
    /\ Len(expansion) = 4
    /\ Cardinality(DOMAIN closedset) = 3
    /\ expansion[1] /= expansion[4]


---------------------------------------------------------------------------
\* The heuristic-enabled selection.  planning() holds it as the commented
\* line under the min() it runs: the key of a frontier node is its cost plus
\* calc_heuristic(ngoal, node).  A call in this mode is kept in the record
\* other; its iterations are planning()'s with that line in place of the
\* cost-only min().

\* calc_heuristic with w = 1.0 is d = sqrt((n1.x - n2.x)^2 + (n1.y - n2.y)^2);
\* it is kept exactly, as the number under the root
\* the heuristic with w = 2.0
calc_heuristic_Weighted(n1, n2) ==
    4 * ((n1.x - n2.x) * (n1.x - n2.x) + (n1.y - n2.y) * (n1.y - n2.y))

calc_heuristic(n1, n2) ==
    (n1.x - n2.x) * (n1.x - n2.x) + (n1.y - n2.y) * (n1.y - n2.y)

Sign(k) == IF k > 0 THEN 1 ELSE IF k < 0 THEN -1 ELSE 0
\* the sign of u + v * sqrt(2)
SignRoot2(u, v) ==
    IF u >= 0 /\ v >= 0 THEN Sign(u + v)
    ELSE IF u <= 0 /\ v <= 0 THEN -1
    ELSE IF u > 0 THEN Sign(u * u - 2 * v * v)
    ELSE Sign(2 * v * v - u * u)
\* sqrt(h) <= c, for a cost c
RootAtMost(h, c) ==
    SignRoot2(c[1] * c[1] + 2 * c[2] * c[2] - h, 2 * c[1] * c[2]) >= 0
\* c1 + sqrt(h1) < c2 + sqrt(h2), for costs c1, c2: the order of the keys
PriorityLess(c1, h1, c2, h2) ==
    LET p == c1[1] - c2[1]
        q == c1[2] - c2[2]
        sd == SignRoot2(p, q)
        se == Sign(h1 - h2)
        u == p * p + 2 * q * q - h1 - h2
        v == 2 * p * q
        \* the sign of (c1 - c2)^2 - (sqrt(h1) - sqrt(h2))^2
        sq == IF SignRoot2(u, v) >= 0
              THEN (IF u = 0 /\ v = 0 /\ h1 * h2 = 0 THEN 0 ELSE 1)
              ELSE SignRoot2(4 * h1 * h2 - u * u - 2 * v * v, 0 - 2 * u * v)
    IN  IF sd = se \/ se = 0 THEN sd < 0
        ELSE IF sd = 0 THEN se < 0
        ELSE IF sd < 0 THEN sq > 0
        ELSE sq < 0

\* min(openset, key=cost + calc_heuristic(ngoal, node)): the first key, in
\* iteration order, of least priority
MinPriorityId(open, goal) ==
    LET key(j) == calc_heuristic(goal, open[j].node)
        i == CHOOSE j \in 1..Len(open) :
                 /\ \A k \in 1..(j - 1) :
                        PriorityLess(open[j].node.cost, key(j), open[k].node.cost, key(k))
                 /\ \A k \in (j + 1)..Len(open) :
                        ~PriorityLess(open[k].node.cost, key(k), open[j].node.cost, key(j))
    IN  open[i].id

\* an iteration of the while loop with the heuristic-enabled selection
HeuristicStep(c) ==
    IF c.openset = <<>> THEN [c EXCEPT !.pc = "raised", !.exc = "ValueError"]
    ELSE
      LET c_id == MinPriorityId(c.openset, c.ngoal)
          current == OpenGet(c.openset, c_id)
          log == Append(c.expansion, <<calc_position(current.x, minx),
                                       calc_position(current.y, miny)>>)
      IN  IF current.x = c.ngoal.x /\ current.y = c.ngoal.y
          THEN LET goal == [c.ngoal EXCEPT !.pind = current.pind,
                                           !.cost = current.cost]
                   r == calc_final_path(goal, c.closedset)
               IN  IF r.err = "none"
                   THEN [c EXCEPT !.expansion = log, !.ngoal = goal,
                                  !.rx = r.rx, !.ry = r.ry, !.pc = "done"]
                   ELSE [c EXCEPT !.expansion = log, !.ngoal = goal,
                                  !.pc = "raised", !.exc = r.err]
          ELSE LET closed == DictPut(c.closedset, c_id, current)
                   r == ExpandFrom(1, OpenDel(c.openset, c_id), closed, current, c_id)
               IN  [c EXCEPT !.expansion = log, !.closedset = closed,
                              !.openset = r.open,
                              !.pc = IF r.err = "none" THEN "search" ELSE "raised",
                              !.exc = IF r.err = "none" THEN c.exc ELSE r.err]

HeuristicStart ==
    /\ pc = "ready"
    /\ other.pc = "idle"
    /\ \E sx \in {0, 4}, sy \in 0..3, gx \in 0..4, gy \in 0..3 :
          other' = CallStart(sx, sy, gx, gy)
    /\ UNCHANGED <<pc, exc, gridvars, planvars, obstacles, query, robot, wheel, rrt>>

HeuristicLoop ==
    /\ other.pc = "search"
    /\ other' = HeuristicStep(other)
    /\ UNCHANGED <<pc, exc, gridvars, planvars, obstacles, query, robot, wheel, rrt>>

HeuristicNext == DetourConstruct \/ HeuristicStart \/ HeuristicLoop
HeuristicSpec == Init /\ [][HeuristicNext]_vars

\* the same query planned in Dijkstra mode
DijkstraRun == RunAlone(CallStart(other.query[1], other.query[2],
                                  other.query[3], other.query[4]))

\* C23. With the heuristic-enabled selection (priority = cost +
\* calc_heuristic(goal, cell), weight 1.0): calc_heuristic never exceeds the
\* true remaining path cost of an unoccupied in-bounds cell, and planning
\* returns a path of the same cost as Dijkstra-mode planning on the same
\* grid, start and goal (and returns one exactly when Dijkstra mode does).
C23_HeuristicAdmissibleAndOptimal ==
    /\ (other.pc = "search" /\ other.expansion = <<>>) =>
          \A c \in DOMAIN obmap :
              LET rest == ShortestCost(c, CellOf(other.ngoal))
              IN  (FreeCell(c) /\ rest /= NoPath) =>
                      RootAtMost(calc_heuristic(other.ngoal,
                                                Node(c[1], c[2], CostZero, -1)), rest)
    /\ Ended(other) =>
          /\ DijkstraRun.pc = other.pc
          /\ other.pc = "done" => other.ngoal.cost = DijkstraRun.ngoal.cost

\* a valid query around the wall that the heuristic answers after selecting
\* fewer cells than Dijkstra mode does
C23_Witness ==
    /\ other.pc = "done"
    /\ FreeCell(CellOf(other.nstart)) /\ FreeCell(CellOf(other.ngoal))
    /\ other.ngoal.cost[1] > 0 /\ other.ngoal.cost[2] > 0
    /\ Len(other.expansion) < Len(DijkstraRun.expansion)


---------------------------------------------------------------------------
\* C24. In Dijkstra mode the costs of the selected cells are non-decreasing
\* over a planning call: the cell an iteration selects costs no less than the
\* cell the iteration before it selected.
C24_SelectedCostsNonDecreasing ==
    [][(pc = "search" /\ openset /= <<>> /\ pc' = "search" /\ openset' /= <<>>) =>
          ~CostLess(Selected'.cost, Selected.cost)]_vars

\* a search that has selected cells of three different costs
C24_Witness ==
    /\ pc = "search"
    /\ openset /= <<>>
    /\ \E a, b \in DOMAIN closedset :
          /\ CostLess(closedset[a].cost, closedset[b].cost)
          /\ CostLess(closedset[b].cost, Selected.cost)


---------------------------------------------------------------------------
\* C25. Every node in the frontier or the explored set, other than the start
\* node, has a parent id that is a key of the explored set; its cell is one
\* motion primitive away from its parent's cell and its cost is the parent's
\* cost plus that primitive's cost; and following parent ids from any node
\* reaches the start node without a cycle.
SearchNodes ==
    {openset[i].node : i \in 1..Len(openset)} \cup {closedset[k] : k \in DOMAIN closedset}
IsStart(n) == n.pind = -1 /\ CellOf(n) = CellOf(nstart)
\* following parent ids from n reaches the start node in at most k steps
RECURSIVE ReachesStart(_, _)
ReachesStart(n, k) ==
    IF IsStart(n) THEN TRUE
    ELSE IF k = 0 \/ n.pind \notin DOMAIN closedset THEN FALSE
    ELSE ReachesStart(closedset[n.pind], k - 1)
C25_ParentLinksFormTree ==
    Started =>
        \A n \in SearchNodes :
            /\ ~IsStart(n) =>
                  /\ n.pind \in DOMAIN closedset
                  /\ LET p == closedset[n.pind]
                         m == MoveCost(CellOf(p), CellOf(n))
                     IN  /\ Adjacent(CellOf(p), CellOf(n))
                         /\ n.cost = <<p.cost[1] + m[1], p.cost[2] + m[2]>>
            /\ ReachesStart(n, Cardinality(DOMAIN closedset))

\* a search of a valid query with a frontier node two parent links from the
\* start, the second of them a diagonal move
C25_Witness ==
    /\ Started
    /\ QueryValid
    /\ \E i \in 1..Len(openset) :
          /\ ~ReachesStart(openset[i].node, 1)
          /\ ReachesStart(openset[i].node, 2)
          /\ openset[i].node.cost[2] > closedset[openset[i].node.pind].cost[2]


---------------------------------------------------------------------------
\* Floating-point numbers.  The poses of Robot and the weights of the
\* resampling wheel are Python floats; what the code does with them depends on
\* rounding and on nan.  The model's floats are a binary format with a
\* mantissa of two bits, in units of its smallest step: 0, 1, 2, 3, then 4, 6,
\* then 8, 12, and so on, with either sign.  Every result is rounded to the
\* nearest float, a tie going to the even mantissa, and nan compares false
\* with everything.
Magnitudes == {0, 1, 2, 3, 4, 6, 8, 12, 16, 24, 32}
\* nan: a number that is not a float of the format
NaN == 33
Finite == Magnitudes \cup {0 - m : m \in Magnitudes}
Floats == Finite \cup {NaN}
Magnitude(a) == IF a < 0 THEN 0 - a ELSE a

\* the step between the floats around a / d, for a >= 0 and d > 0
RECURSIVE Spacing(_, _, _)
Spacing(a, d, s) == IF a < 4 * s * d THEN s ELSE Spacing(a, d, 2 * s)
\* the float nearest to n / d, for d > 0
RoundRat(n, d) ==
    LET s == Spacing(Magnitude(n), d, 1)
        r == s * PyRound(Magnitude(n), s * d)
    IN  IF n < 0 THEN 0 - r ELSE r
FLess(a, b) == a /= NaN /\ b /= NaN /\ a < b
FGeq(a, b) == a /= NaN /\ b /= NaN /\ a >= b
FAdd(a, b) == IF a = NaN \/ b = NaN THEN NaN ELSE RoundRat(a + b, 1)
FSub(a, b) == IF a = NaN \/ b = NaN THEN NaN ELSE RoundRat(a - b, 1)
\* the float 1.0
One == 4
FMul(a, b) == IF a = NaN \/ b = NaN THEN NaN ELSE RoundRat(a * b, One)
\* a % m of floats, m > 0: fmod keeps the sign of a and is exact; a negative
\* remainder has m added to it, and that sum is rounded
FMod(a, m) ==
    IF a = NaN THEN NaN
    ELSE LET r == IF a < 0 THEN 0 - ((0 - a) % m) ELSE a % m
         IN  IF r < 0 THEN RoundRat(r + m, 1) ELSE r

---------------------------------------------------------------------------
\* Robot.  world_size (100.0 in the code) and 2 * np.pi are floats of the
\* format; forward_noise and turn_noise keep the 0.0 of the constructor, so
\* the noise terms of move are 0.0.
world_size == 8
Pi == 3
TwoPi == FMul(2 * One, Pi)

Pose(r) == <<r.x, r.y, r.orientation>>
\* what np.random.rand() returns: floats in [0.0, 1.0)
Draws == {0, 1, 3}
\* Robot(): a random pose, np.random.rand() * world_size and
\* np.random.rand() * 2.0 * np.pi
RobotPoses ==
    {<<FMul(a, world_size), FMul(b, world_size), FMul(FMul(c, 2 * One), Pi)>> :
        a \in Draws, b \in Draws, c \in Draws}

\* set_pose that stores each coordinate as soon as it has passed its test
set_pose_StoreAsChecked(r, new_x, new_y, new_orientation) ==
    LET raised(q) == [q EXCEPT !.exc = "ValueError"]
    IN  IF FLess(new_x, 0) \/ FGeq(new_x, world_size) THEN raised(r)
        ELSE IF FLess(new_y, 0) \/ FGeq(new_y, world_size)
             THEN raised([r EXCEPT !.x = new_x])
        ELSE IF FLess(new_orientation, 0) \/ FGeq(new_orientation, TwoPi)
             THEN raised([r EXCEPT !.x = new_x, !.y = new_y])
        ELSE [r EXCEPT !.x = new_x, !.y = new_y, !.orientation = new_orientation,
                       !.exc = "none"]

set_pose(r, new_x, new_y, new_orientation) ==
    IF FLess(new_x, 0) \/ FGeq(new_x, world_size) THEN [r EXCEPT !.exc = "ValueError"]
    ELSE IF FLess(new_y, 0) \/ FGeq(new_y, world_size) THEN [r EXCEPT !.exc = "ValueError"]
    ELSE IF FLess(new_orientation, 0) \/ FGeq(new_orientation, TwoPi)
         THEN [r EXCEPT !.exc = "ValueError"]
    ELSE [r EXCEPT !.x = new_x, !.y = new_y, !.orientation = new_orientation,
                   !.exc = "none"]

\* move(turn, forward); cos and sin are the values np.cos(orientation) and
\* np.sin(orientation) returned, floats in [-1.0, 1.0] or nan
move(r, turn, forward, cos, sin) ==
    IF FLess(forward, 0) THEN [r EXCEPT !.exc = "ValueError"]
    ELSE LET orientation == FMod(FAdd(FAdd(r.orientation, turn), 0), TwoPi)
             dist == FAdd(forward, 0)
             x == FMod(FAdd(r.x, FMul(IF orientation = NaN THEN NaN ELSE cos, dist)),
                       world_size)
             y == FMod(FAdd(r.y, FMul(IF orientation = NaN THEN NaN ELSE sin, dist)),
                       world_size)
         IN  set_pose(r, x, y, orientation)

\* the arguments of the calls: floats inside and outside the ranges, and nan
PoseArguments == {NaN, 0 - 1, 3, 8}
TurnArguments == {NaN, 0 - 2, 1}
ForwardArguments == {NaN, 0 - 1, 0, 3}
Cosines == {0 - One, 0 - 1, 1}

RobotInit ==
    /\ robot.op = "none"
    /\ \E p \in RobotPoses :
          robot' = [op |-> "__init__", args |-> <<>>, exc |-> "none",
                    x |-> p[1], y |-> p[2], orientation |-> p[3]]
    /\ UNCHANGED <<pc, exc, gridvars, planvars, obstacles, query, other, wheel, rrt>>

RobotSetPose ==
    /\ robot.op /= "none"
    /\ \E a, b, c \in PoseArguments :
          robot' = [set_pose(robot, a, b, c) EXCEPT !.op = "set_pose", !.args = <<a, b, c>>]
    /\ UNCHANGED <<pc, exc, gridvars, planvars, obstacles, query, other, wheel, rrt>>

RobotMove ==
    /\ robot.op /= "none"
    /\ \E turn \in TurnArguments, forward \in ForwardArguments, cos \in Cosines, sin \in Cosines :
          robot' = [move(robot, turn, forward, cos, sin)
                        EXCEPT !.op = "move", !.args = <<turn, forward>>]
    /\ UNCHANGED <<pc, exc, gridvars, planvars, obstacles, query, other, wheel, rrt>>

RobotNext == RobotInit \/ RobotSetPose \/ RobotMove
RobotSpec == Init /\ [][RobotNext]_vars

InRange(a, m) == a /= NaN /\ 0 <= a /\ a < m

\* C26. After any sequence of successful Robot.set_pose and Robot.move calls
\* the pose satisfies 0 <= x < world_size, 0 <= y < world_size and
\* 0 <= orientation < 2*pi; a move wraps position and orientation around the
\* world boundary.  (The original claim; the tests of set_pose let nan pass.)
C26_PoseInWorld ==
    robot.op /= "none" =>
        /\ InRange(robot.x, world_size)
        /\ InRange(robot.y, world_size)
        /\ InRange(robot.orientation, TwoPi)


\* a pose of nan after a call that did not raise
C26_Witness ==
    /\ robot.op = "move"
    /\ robot.exc = "none"
    /\ robot.x = NaN

---------------------------------------------------------------------------
\* C27. A rejected Robot operation leaves the pose unchanged: set_pose with
\* any of x, y, orientation out of range (below 0, or at or above its limit)
\* raises ValueError without changing x, y or orientation, also when an
\* earlier argument was valid; move with forward < 0 raises ValueError without
\* changing them; and so does every other call that raises.
OutOfRange(a, m) == FLess(a, 0) \/ FGeq(a, m)
C27_RejectedLeavesPose ==
    [][/\ (/\ robot'.op = "set_pose"
           /\ \/ OutOfRange(robot'.args[1], world_size)
              \/ OutOfRange(robot'.args[2], world_size)
              \/ OutOfRange(robot'.args[3], TwoPi)) => robot'.exc = "ValueError"
       /\ (robot'.op = "move" /\ FLess(robot'.args[2], 0)) => robot'.exc = "ValueError"
       /\ robot'.exc = "ValueError" => Pose(robot') = Pose(robot)]_vars

\* set_pose rejected for its orientation after x and y were valid and new
C27_Witness ==
    /\ robot.op = "set_pose"
    /\ robot.exc = "ValueError"
    /\ InRange(robot.args[1], world_size) /\ robot.args[1] /= robot.x
    /\ InRange(robot.args[2], world_size) /\ robot.args[2] /= robot.y
    /\ OutOfRange(robot.args[3], TwoPi)


---------------------------------------------------------------------------
\* The resampling wheel: resampling(particles, w) and
\* stochasticUniversalSampling(particles, weights).  A particle is an object
\* with an identity and a value; the two lists pass the same number of
\* entries.  A call's local variables are the record wheel.
MaxParticles == 2
Weights == {NaN, 0 - 1, 0, 1, 3}
ParticleValues == {"p", "q"}
ParticleLists ==
    UNION {[1..n -> ParticleValues] : n \in 0..MaxParticles}
WeightLists(n) == [1..n -> Weights]
Objects(values) == [j \in 1..Len(values) |-> [id |-> j, val |-> values[j]]]

\* copy() that hands back the object itself
copy_Alias(obj, fresh) == obj

\* copy(obj): a new object with the fields of obj
copy(obj, fresh) == [obj EXCEPT !.id = fresh]

\* max(w) of a non-empty list: the first entry that no later entry exceeds
RECURSIVE MaxFrom(_, _, _)
MaxFrom(w, j, m) ==
    IF j > Len(w) THEN m
    ELSE MaxFrom(w, j + 1, IF FLess(m, w[j]) THEN w[j] ELSE m)

\* resampling(particles, w) up to its for loop
ResamplingCall(particles, w) ==
    IF Len(w) = 0
    THEN [NoWheel EXCEPT !.pc = "raised", !.fn = "resampling", !.exc = "ValueError",
                         !.particles = particles, !.w = w]
    ELSE [NoWheel EXCEPT !.pc = "for", !.fn = "resampling",
                         !.particles = particles, !.w = w, !.N = Len(particles),
                         !.w_max = MaxFrom(w, 2, w[1])]

\* stochasticUniversalSampling(particles, weights) up to its for loop
SamplingCall(particles, w, rand) ==
    IF Len(particles) = 0
    THEN [NoWheel EXCEPT !.pc = "raised", !.fn = "stochasticUniversalSampling",
                         !.exc = "ZeroDivisionError", !.particles = particles, !.w = w]
    ELSE [NoWheel EXCEPT !.pc = "for", !.fn = "stochasticUniversalSampling",
                         !.particles = particles, !.w = w, !.N = Len(particles),
                         !.beta = RoundRat(rand, Len(particles))]

\* the wheel's step of beta at the head of an iteration of the for loop
Advance(c, rand) ==
    IF c.fn = "resampling"
    THEN FAdd(c.beta, FMul(FMul(2 * One, c.w_max), rand))
    ELSE FAdd(c.beta, RoundRat(One, c.N))

WheelCall ==
    /\ wheel.pc = "idle"
    /\ \E values \in ParticleLists :
          \E w \in WeightLists(Len(values)), rand \in Draws :
              \/ wheel' = ResamplingCall(Objects(values), w)
              \/ wheel' = SamplingCall(Objects(values), w, rand)
    /\ UNCHANGED <<pc, exc, gridvars, planvars, obstacles, query, other, robot, rrt>>

\* for i in range(N): the step of beta
WheelFor ==
    /\ wheel.pc = "for"
    /\ wheel.i < wheel.N
    /\ \E rand \in Draws :
          wheel' = [wheel EXCEPT !.beta = Advance(wheel, rand), !.pc = "while"]
    /\ UNCHANGED <<pc, exc, gridvars, planvars, obstacles, query, other, robot, rrt>>

\* while beta > w[index]: one iteration
WheelSpin ==
    /\ wheel.pc = "while"
    /\ FLess(wheel.w[wheel.index + 1], wheel.beta)
    /\ wheel' = [wheel EXCEPT !.beta = FSub(wheel.beta, wheel.w[wheel.index + 1]),
                              !.index = (wheel.index + 1) % wheel.N]
    /\ UNCHANGED <<pc, exc, gridvars, planvars, obstacles, query, other, robot, rrt>>

\* the while loop ends: the particle at index is copied and appended
WheelSelect ==
    /\ wheel.pc = "while"
    /\ ~FLess(wheel.w[wheel.index + 1], wheel.beta)
    /\ wheel' = [wheel EXCEPT
                    !.p_temp = Append(wheel.p_temp,
                                      copy(wheel.particles[wheel.index + 1],
                                           wheel.N + Len(wheel.p_temp) + 1)),
                    !.i = wheel.i + 1,
                    !.pc = "for"]
    /\ UNCHANGED <<pc, exc, gridvars, planvars, obstacles, query, other, robot, rrt>>

\* the for loop ends: return p_temp
WheelReturn ==
    /\ wheel.pc = "for"
    /\ wheel.i = wheel.N
    /\ wheel' = [wheel EXCEPT !.pc = "returned"]
    /\ UNCHANGED <<pc, exc, gridvars, planvars, obstacles, query, other, robot, rrt>>

WheelNext == WheelCall \/ WheelFor \/ WheelSpin \/ WheelSelect \/ WheelReturn
WheelSpec == Init /\ [][WheelNext]_vars

\* C28. What resampling and stochasticUniversalSampling return is exactly
\* N = len(particles) particles, every one a copy (a new object with the
\* value) of the input particle at some index in [0, N); and a call leaves
\* the input particle list, its particles and the weight list unmodified.
C28_ReturnsCopiesOfInputs ==
    /\ [](wheel.pc = "returned" =>
            /\ Len(wheel.p_temp) = Len(wheel.particles)
            /\ \A k \in 1..Len(wheel.p_temp) :
                  /\ \E j \in 1..Len(wheel.particles) :
                        wheel.p_temp[k].val = wheel.particles[j].val
                  /\ \A j \in 1..Len(wheel.particles) :
                        wheel.p_temp[k].id /= wheel.particles[j].id)
    /\ [][wheel.pc /= "idle" =>
            /\ wheel'.particles = wheel.particles
            /\ wheel'.w = wheel.w]_vars

\* a call that returned two copies of one particle of two different ones
C28_Witness ==
    /\ wheel.pc = "returned"
    /\ Len(wheel.particles) = 2
    /\ wheel.particles[1].val /= wheel.particles[2].val
    /\ wheel.p_temp[1].val = wheel.p_temp[2].val
    /\ wheel.p_temp[1].id /= wheel.p_temp[2].id


---------------------------------------------------------------------------
\* The wheel when every statement that can run does run.
WheelFairSpec ==
    /\ WheelSpec
    /\ WF_vars(WheelFor) /\ WF_vars(WheelSpin) /\ WF_vars(WheelSelect)
    /\ WF_vars(WheelReturn)

\* non-negative weights with at least one positive weight
WeightsValid(w) ==
    /\ \A j \in 1..Len(w) : FGeq(w[j], 0)
    /\ \E j \in 1..Len(w) : FLess(0, w[j])

\* C29. For every list of non-negative weights with at least one positive
\* weight and every value drawn for the random numbers, the inner wheel loop
\* (while beta > w[index]) of resampling and of stochasticUniversalSampling
\* terminates for each of the N selections, so both functions return.  (The
\* original claim; in stochasticUniversalSampling beta - weights[index] can
\* round back to beta.)
C29_WheelTerminates ==
    (wheel.pc \in {"for", "while"} /\ WeightsValid(wheel.w)) ~> (wheel.pc = "returned")

\* the while loop of stochasticUniversalSampling at a weight that the
\* subtraction does not take off beta
C29_Witness ==
    /\ wheel.pc = "while"
    /\ wheel.fn = "stochasticUniversalSampling"
    /\ WeightsValid(wheel.w)
    /\ FLess(wheel.w[wheel.index + 1], wheel.beta)
    /\ FSub(wheel.beta, wheel.w[wheel.index + 1]) = wheel.beta
    /\ wheel.N = 1


---------------------------------------------------------------------------
\* The RRT script: rrt_plan = RRT(), the loop that grows the tree, the path
\* retrieval and the path smoothing.  Points are pairs of floats.  A tree node
\* is <<point, parent>>, the parent an index into nodes, 0-based as in the
\* code, written <<i>>, and <<>> for None.  The statements the notebook leaves
\* blank in the growth loop (the sample, its nearest node, the new point, the
\* collision test of the edge) and the obstacles of check_segment_collision
\* are free choices.
start == <<4, 0 - 4>>
target == <<0 - 6, 8>>
RADIUS_TARGET == One
SMOOTHING_STEP == 1
SMOOTHING_ITERATIONS == 2
MaxNodes == 3
NewPoints == {<<0, 0>>, <<0 - 4, 4>>, target}

\* np.arange(first, stop, step): first + i * step for i < ceil((stop - first) / step)
RECURSIVE ArangeFrom(_, _, _, _)
ArangeFrom(first, step, i, n) ==
    IF i >= n THEN <<>>
    ELSE <<FAdd(first, FMul(i * One, step))>> \o ArangeFrom(first, step, i + 1, n)
Arange(first, stop, step) ==
    LET span == FSub(stop, first)
        n == IF span <= 0 THEN 0 ELSE (span + step - 1) \div step
    IN  ArangeFrom(first, step, 0, n)

\* the nodes from nodes[index] up to the root, as the while loop collects them
RECURSIVE PathToRoot(_, _)
PathToRoot(nodes, parent) ==
    IF parent = <<>> THEN <<>>
    ELSE <<nodes[parent[1] + 1][1]>> \o PathToRoot(nodes, nodes[parent[1] + 1][2])

\* the points put between path[index_low] and path[index_up]
Middle(low, up) ==
    LET deltax == FSub(up[1], low[1])
        deltay == FSub(up[2], low[2])
        ls == Arange(SMOOTHING_STEP, FSub(One, SMOOTHING_STEP), SMOOTHING_STEP)
    IN  [j \in 1..Len(ls) |->
            <<FAdd(low[1], FMul(ls[j], deltax)), FAdd(low[2], FMul(ls[j], deltay))>>]

\* path[:index_low] + middle + path[index_up:]
Smoothed_DropLow(path, index_low, index_up) ==
    SubSeq(path, 1, index_low)
        \o Middle(path[index_low + 1], path[index_up + 1])
        \o SubSeq(path, index_up + 1, Len(path))

\* path[:index_low+1] + middle + path[index_up:]
Smoothed(path, index_low, index_up) ==
    SubSeq(path, 1, index_low + 1)
        \o Middle(path[index_low + 1], path[index_up + 1])
        \o SubSeq(path, index_up + 1, Len(path))

\* rrt_plan = RRT()
ScriptNew ==
    /\ rrt.pc = "idle"
    /\ rrt' = [rrt EXCEPT !.pc = "grow", !.nodes = <<<<start, <<>>>>>>]
    /\ UNCHANGED <<pc, exc, gridvars, planvars, obstacles, query, other, robot, wheel>>

\* an iteration of the growth loop that adds a node
ScriptGrow ==
    /\ rrt.pc = "grow"
    /\ Len(rrt.nodes) < MaxNodes
    /\ \E q_new \in NewPoints, index \in 0..(Len(rrt.nodes) - 1) :
          LET dx == q_new[1] - target[1]
              dy == q_new[2] - target[2]
              is_reached == dx * dx + dy * dy < RADIUS_TARGET * RADIUS_TARGET
          IN  rrt' = [rrt EXCEPT !.nodes = Append(rrt.nodes, <<q_new, <<index>>>>),
                                 !.pc = IF is_reached THEN "reached" ELSE "grow"]
    /\ UNCHANGED <<pc, exc, gridvars, planvars, obstacles, query, other, robot, wheel>>

\* the path retrieval, from the last node to the root
ScriptRetrieve ==
    /\ rrt.pc = "reached"
    /\ rrt' = [rrt EXCEPT
                  !.path = <<target>> \o PathToRoot(rrt.nodes, <<Len(rrt.nodes) - 1>>)
                               \o <<start>>,
                  !.pc = "smooth"]
    /\ UNCHANGED <<pc, exc, gridvars, planvars, obstacles, query, other, robot, wheel>>

\* an iteration of the smoothing loop
ScriptSmooth ==
    /\ rrt.pc = "smooth"
    /\ rrt.k < SMOOTHING_ITERATIONS
    /\ \E index1 \in 0..(Len(rrt.path) - 1), index2 \in 0..(Len(rrt.path) - 1),
          collision \in BOOLEAN :
          LET index_low == IF index1 < index2 THEN index1 ELSE index2
              index_up == IF index1 < index2 THEN index2 ELSE index1
          IN  rrt' = [rrt EXCEPT
                         !.k = rrt.k + 1,
                         !.path = IF index1 /= index2 /\ ~collision
                                  THEN Smoothed(rrt.path, index_low, index_up)
                                  ELSE rrt.path]
    /\ UNCHANGED <<pc, exc, gridvars, planvars, obstacles, query, other, robot, wheel>>

ScriptNext == ScriptNew \/ ScriptGrow \/ ScriptRetrieve \/ ScriptSmooth
ScriptSpec == Init /\ [][ScriptNext]_vars

\* C30. RRT path smoothing preserves the endpoints: after any number of
\* smoothing iterations, for every choice of index1 and index2, the path is
\* non-empty, its first element is still the target and its last element is
\* still the start.
C30_SmoothingKeepsEndpoints ==
    rrt.pc = "smooth" =>
        /\ Len(rrt.path) >= 1
        /\ rrt.path[1] = target
        /\ rrt.path[Len(rrt.path)] = start

\* a path that two smoothing iterations changed, the first of them between
\* the target and a later point
C30_Witness ==
    /\ rrt.pc = "smooth"
    /\ rrt.k = 2
    /\ Len(rrt.path) > Len(rrt.nodes) + 2
    /\ \E j \in 2..(Len(rrt.path) - 1) :
          \A n \in 1..Len(rrt.nodes) : rrt.path[j] /= rrt.nodes[n][1]

=============================================================================
